---- MODULE Spec2Model ----
(***************************************************************************)
(* Model of YtDlpProcess (src/ytdl_ui/ytdlp_process.py): one supervisor of *)
(* one yt-dlp job, its pump threads (_download_func), the caller           *)
(* operations (download, kill, add_listener, remove_listener, get_info,    *)
(* is_complete, get_rc), the listeners' callbacks and the parser of the    *)
(* progress lines.                                                         *)
(*                                                                         *)
(* Strings are TLA+ strings read character by character with SubSeq.       *)
(* A float with at most two fractional digits is held in hundredths        *)
(* (45.50 is 4550, 100.0 is 10000).  Python's None is the value None.      *)
(***************************************************************************)
EXTENDS Integers, Sequences, FiniteSets, TLC

\* ------------------------------------------------------------------ bounds
\* download() calls made on the supervisor (each starts one pump thread)
MaxDownloads == 2
\* output lines the spawned processes write, all processes together
MaxLines == 2
\* kill() calls made on the supervisor
MaxKills == 2

\* calls of kill() in the runs in which download() is called again
MaxRestartKills == 1
\* records handed to the dispatcher before the completed one
MaxUpdates == 3
\* listener objects that exist
NumListeners == 1

\* the capacity of the stderr pipe, in blocks
PipeCapacity == 2

\* the most blocks a process writes to stderr
MaxStderr == PipeCapacity + 1

\* Python's None (never an exit status, never a number of seconds)
None == -1000

\* ------------------------------------------------------------ characters
Ch(s, i) == IF i >= 1 /\ i <= Len(s) THEN SubSeq(s, i, i) ELSE ""

Digits == {"0", "1", "2", "3", "4", "5", "6", "7", "8", "9"}

IsDigit(c) == c \in Digits

\* \s of the regular expression, and what str.strip() removes
IsSpace(c) == c \in {" ", "\t", "\n", "\r"}

DigitVal(c) ==
    CASE c = "0" -> 0 [] c = "1" -> 1 [] c = "2" -> 2 [] c = "3" -> 3
      [] c = "4" -> 4 [] c = "5" -> 5 [] c = "6" -> 6 [] c = "7" -> 7
      [] c = "8" -> 8 [] c = "9" -> 9

\* the first position from i on whose character is no digit (\d+ is greedy)
RECURSIVE DigitsEnd(_, _)
DigitsEnd(s, i) == IF IsDigit(Ch(s, i)) THEN DigitsEnd(s, i + 1) ELSE i

\* the first position from i on whose character is no white space (\s+)
RECURSIVE SpacesEnd(_, _)
SpacesEnd(s, i) == IF IsSpace(Ch(s, i)) THEN SpacesEnd(s, i + 1) ELSE i

\* the first position from i on whose character is not in [0-9:]
RECURSIVE EtaEnd(_, _)
EtaEnd(s, i) ==
    IF IsDigit(Ch(s, i)) \/ Ch(s, i) = ":" THEN EtaEnd(s, i + 1) ELSE i

\* the literal lit stands at position i of s
LitAt(s, i, lit) ==
    /\ i >= 1
    /\ i + Len(lit) - 1 <= Len(s)
    /\ SubSeq(s, i, i + Len(lit) - 1) = lit

EndsWith(s, suf) ==
    /\ Len(s) >= Len(suf)
    /\ SubSeq(s, Len(s) - Len(suf) + 1, Len(s)) = suf

\* s.find(sub) >= 0
Contains(s, sub) == \E i \in 1..Len(s) : LitAt(s, i, sub)

\* str.strip()
RECURSIVE LStrip(_)
LStrip(s) == IF Len(s) > 0 /\ IsSpace(Ch(s, 1)) THEN LStrip(Tail(s)) ELSE s

RECURSIVE RStrip(_)
RStrip(s) ==
    IF Len(s) > 0 /\ IsSpace(Ch(s, Len(s)))
    THEN RStrip(SubSeq(s, 1, Len(s) - 1))
    ELSE s

Strip(s) == RStrip(LStrip(s))

\* --------------------------------------------------------------- numbers
RECURSIVE Pow(_, _)
Pow(b, e) == IF e = 0 THEN 1 ELSE b * Pow(b, e - 1)

AllDigits(s) == Len(s) > 0 /\ \A i \in 1..Len(s) : IsDigit(Ch(s, i))

\* the value of a string of digits
RECURSIVE DigitsValue(_)
DigitsValue(s) ==
    IF Len(s) = 0 THEN 0
    ELSE 10 * DigitsValue(SubSeq(s, 1, Len(s) - 1)) + DigitVal(Ch(s, Len(s)))

\* int(s): a number, or the ValueError Python raises
PyInt(s) ==
    IF AllDigits(s) THEN [raised |-> FALSE, val |-> DigitsValue(s)]
    ELSE [raised |-> TRUE, val |-> 0]

\* the position of the first "." of s, or 0
RECURSIVE DotPos(_, _)
DotPos(s, i) ==
    IF i > Len(s) THEN 0 ELSE IF Ch(s, i) = "." THEN i ELSE DotPos(s, i + 1)

\* float(s) for s of the shape \d+\.\d+ : the whole part and the fraction
\* as written (frac / 10^fdigits)
PyFloat(s) ==
    LET d == DotPos(s, 1)
        f == SubSeq(s, d + 1, Len(s))
    IN  [whole |-> DigitsValue(SubSeq(s, 1, d - 1)),
         frac |-> DigitsValue(f),
         fdigits |-> Len(f)]

\* a float in hundredths (exact for at most two fractional digits)
Hundredths(x) ==
    x.whole * 100 + (x.frac * 100) \div Pow(10, x.fdigits)

\* the product as it would be with decimal units, int(x * 1000.0**k)
TimesPow1000(x, k) ==
    LET m == Pow(1000, k)
        den == Pow(10, x.fdigits)
        q == m \div den
        r == m % den
    IN  x.whole * m + x.frac * q + (x.frac * r) \div den

\* int(x * 1024.0**k), truncated toward zero; the product is formed from
\* quotient and remainder so that no intermediate exceeds 32 bits
TimesPow1024(x, k) ==
    LET m == Pow(1024, k)
        den == Pow(10, x.fdigits)
        q == m \div den
        r == m % den
    IN  x.whole * m + x.frac * q + (x.frac * r) \div den

\* ------------------------------------------------- YtDlpProcess, statics
parse_byte_size(s) ==
    IF EndsWith(s, "GiB") THEN TimesPow1024(PyFloat(SubSeq(s, 1, Len(s) - 3)), 3)
    ELSE IF EndsWith(s, "MiB") THEN TimesPow1024(PyFloat(SubSeq(s, 1, Len(s) - 3)), 2)
    ELSE IF EndsWith(s, "KiB") THEN TimesPow1024(PyFloat(SubSeq(s, 1, Len(s) - 3)), 1)
    ELSE IF EndsWith(s, "B") THEN TimesPow1024(PyFloat(SubSeq(s, 1, Len(s) - 1)), 0)
    ELSE 0

\* s.split(':')
RECURSIVE SplitColon(_, _, _)
SplitColon(s, i, cur) ==
    IF i > Len(s) THEN <<cur>>
    ELSE IF Ch(s, i) = ":" THEN <<cur>> \o SplitColon(s, i + 1, "")
    ELSE SplitColon(s, i + 1, cur \o Ch(s, i))

\* parse_seconds: [raised, val]; raised is the ValueError of int()
parse_seconds(s) ==
    IF Contains(s, "--") THEN [raised |-> FALSE, val |-> None]
    ELSE
      LET parts == SplitColon(s, 1, "")
      IN  CASE Len(parts) = 2 ->
                 LET a == PyInt(parts[1])
                     b == PyInt(parts[2])
                 IN  IF a.raised \/ b.raised THEN [raised |-> TRUE, val |-> 0]
                     ELSE [raised |-> FALSE, val |-> a.val * 60 + b.val]
            [] Len(parts) = 3 ->
                 LET a == PyInt(parts[1])
                     b == PyInt(parts[2])
                 IN  IF a.raised \/ b.raised THEN [raised |-> TRUE, val |-> 0]
                     ELSE [raised |-> FALSE,
                           val |-> a.val * 3600 + b.val * 60 + a.val]
            [] OTHER -> [raised |-> FALSE, val |-> 0]

\* ------------------------------------------------------------- util.py
\* the decimal digit d as a character
DigitChar(d) == SubSeq("0123456789", d + 1, d + 1)

\* str(n) of a natural number
RECURSIVE NatStr(_)
NatStr(n) ==
    IF n < 10 THEN DigitChar(n) ELSE NatStr(n \div 10) \o DigitChar(n % 10)

\* f"{n:02}": at least two digits, zeros in front
Format02(n) == IF n < 10 THEN "0" \o NatStr(n) ELSE NatStr(n)

\* seconds_human_readable as it would be without the days: the hours are
\* not reduced below 24
seconds_human_readable_nodays(seconds) ==
    IF seconds = None THEN ""
    ELSE
      LET hours == seconds \div 3600
          minutes == (seconds % 3600) \div 60
          secs == (seconds % 3600) % 60
      IN  IF hours > 0
          THEN Format02(hours) \o ":" \o Format02(minutes) \o ":"
               \o Format02(secs)
          ELSE Format02(minutes) \o ":" \o Format02(secs)

\* seconds_human_readable(seconds), seconds a natural number or None
seconds_human_readable(seconds) ==
    IF seconds = None THEN ""
    ELSE
      LET days == seconds \div 86400
          hours == (seconds % 86400) \div 3600
          minutes == ((seconds % 86400) % 3600) \div 60
          secs == ((seconds % 86400) % 3600) % 60
      IN  IF days > 0
          THEN Format02(days) \o ":" \o Format02(hours) \o ":"
               \o Format02(minutes) \o ":" \o Format02(secs)
          ELSE IF hours > 0
          THEN Format02(hours) \o ":" \o Format02(minutes) \o ":"
               \o Format02(secs)
          ELSE Format02(minutes) \o ":" \o Format02(secs)

\* ------------------------------------------- the progress-line pattern
\* \s+ from i: the position after the white space, 0 when there is none
\* (0 stands for "no match" and is handed on by every piece)
ReSpaces(s, i) ==
    IF i = 0 THEN 0
    ELSE LET e == SpacesEnd(s, i) IN IF e > i THEN e ELSE 0

\* a literal from i
ReLit(s, i, lit) == IF i # 0 /\ LitAt(s, i, lit) THEN i + Len(lit) ELSE 0

\* \d+\.\d+ from i
ReNumber(s, i) ==
    IF i = 0 THEN 0
    ELSE LET a == DigitsEnd(s, i)
             b == DigitsEnd(s, a + 1)
         IN  IF a > i /\ Ch(s, a) = "." /\ b > a + 1 THEN b ELSE 0

\* (?:u1|u2|...) from i, the alternatives tried in their order
RECURSIVE ReUnit(_, _, _)
ReUnit(s, i, units) ==
    IF i = 0 \/ units = <<>> THEN 0
    ELSE IF LitAt(s, i, Head(units)) THEN i + Len(Head(units))
    ELSE ReUnit(s, i, Tail(units))

\* the alternatives of the size and of the rate, as the pattern writes them
SizeUnits == <<"GiB", "MiB", "GiB", "B">>

RateUnits == <<"GiB", "MiB", "KiB", "B">>

\* \s+~?\s+ from i: white space, an optional "~", white space again; with
\* no "~" the two \s+ share one run of white space, which then needs two
ReSpacesTilde(s, i) ==
    IF i = 0 THEN 0
    ELSE LET e == SpacesEnd(s, i)
         IN  IF e = i THEN 0
             ELSE IF Ch(s, e) = "~" THEN ReSpaces(s, e + 1)
             ELSE IF e - i >= 2 THEN e
             ELSE 0

\* the pattern of parse_output tried at position i of s
ReMatchAt(s, i) ==
    LET p1 == ReSpaces(s, ReLit(s, i, "[download]"))
        p2 == ReNumber(s, p1)
        p3 == ReSpaces(s, ReLit(s, p2, "%"))
        p4 == ReSpacesTilde(s, ReLit(s, p3, "of"))
        p5 == ReUnit(s, ReNumber(s, p4), SizeUnits)
        p6 == ReSpaces(s, ReLit(s, ReSpaces(s, p5), "at"))
        p7 == ReUnit(s, ReNumber(s, p6), RateUnits)
        p8 == ReSpaces(s, ReLit(s, ReSpaces(s, ReLit(s, p7, "/s")), "ETA"))
        p9 == IF p8 = 0 THEN 0
              ELSE LET e == EtaEnd(s, p8) IN IF e > p8 THEN e ELSE 0
    IN  IF p9 = 0 THEN [matched |-> FALSE]
        ELSE [matched |-> TRUE,
              g1 |-> SubSeq(s, p1, p2 - 1),
              g2 |-> SubSeq(s, p4, p5 - 1),
              g3 |-> SubSeq(s, p6, p7 - 1),
              g4 |-> SubSeq(s, p8, p9 - 1)]

\* re.search: the match at the leftmost position that has one
RECURSIVE ReSearchFrom(_, _)
ReSearchFrom(s, i) ==
    IF i > Len(s) THEN [matched |-> FALSE]
    ELSE IF ReMatchAt(s, i).matched THEN ReMatchAt(s, i)
    ELSE ReSearchFrom(s, i + 1)

re_search(s) == ReSearchFrom(s, 1)

\* ------------------------------------------------------------ the state
VARIABLES
    process,          \* self.process: None, or the process last spawned
    proc_lock,        \* self.proc_lock is held
    cancelled,        \* self.cancelled
    download_thread,  \* self.download_thread
    data_lock,        \* self.data_lock is held
    rc,               \* self.rc
    ytdlp_info,       \* self.ytdlp_info: a reference into heap
    heap,             \* the YtDlpInfo objects made so far, by reference
    listeners,        \* self.listeners
    pc,               \* where each pump thread (_download_func) stands
    idx,              \* notify_listeners' position in self.listeners
    ret,              \* where notify_listeners returns to
    exc,              \* the exception that ended a pump thread
    proc,             \* the spawned processes, as the operating system has them
    nlines,           \* output lines read so far
    kpc,              \* where the thread calling kill() stands
    nkills,           \* kill() calls so far
    started,          \* download() calls that started a thread so far
    err,              \* what the last caller operation raised
    log,              \* per listener, the callbacks it received, in order
    regAtEnd,         \* the listeners registered when a pump loop last
                      \* ended and ever since
    last_progress,    \* the percent of the last line that parsed
    seen,             \* what a reader's last get_info() returned
    removed,          \* the listeners remove_listener() has returned for
                      \* and that were not added again
    q_info,           \* YtDlpQThread: self.info
    q_rc,             \* YtDlpQThread: self.rc
    q_cancelled,      \* YtDlpQThread: self.cancelled
    q_pc,             \* YtDlpQThread: where run() stands
    q_emitted,        \* YtDlpQThread: the signals run() emitted, in order
    q_stored,         \* status_update calls made on the YtDlpQThread
    q_ppc,            \* where the producer of the YtDlpQThread stands
    f_call,           \* the static function called and its argument
    f_res,            \* what the call returned
    stderr_pipe,      \* bytes written to the stderr pipe and not read
    stderr_todo       \* bytes the process has still to write to stderr

\* the variables of the supervisor (YtDlpProcess)
svars == <<process, proc_lock, cancelled, download_thread, data_lock, rc,
           ytdlp_info, heap, listeners, pc, idx, ret, exc, proc, nlines, kpc,
           nkills, started, err, log, regAtEnd, last_progress>>

\* the variables of the readers and of the callers of remove_listener
rvars == <<seen, removed>>

\* the variables of the dispatcher (YtDlpQThread)
qvars == <<q_info, q_rc, q_cancelled, q_pc, q_emitted, q_stored, q_ppc>>

\* the variables of a call of a static function
fvars == <<f_call, f_res>>

\* the variables of the stderr pipe of the process
evars == <<stderr_pipe, stderr_todo>>

vars == <<svars, rvars, qvars, fvars, evars>>

Threads == 1..MaxDownloads

Listeners == 1..NumListeners

URL == "https://youtu.be/x"

\* the lines a process may write
LineLog == "[download] Destination: a.mp4"

LineA == "[download]  45.50% of  10.00MiB at 512.00KiB/s ETA 00:20"

LineB == "[download]  20.00% of ~ 10.00MiB at   1.00MiB/s ETA 01:02:03"

LineBadEta == "[download]  45.50% of  10.00MiB at 512.00KiB/s ETA :"

Lines == {LineLog, LineA, LineB, LineBadEta}

\* the lines of the runs in which download() is called again
RestartLines == {LineA, LineBadEta}

\* lines of the progress shape: with single spaces between the fields,
\* with an unknown ETA, and with every unit in the size and in the rate
LineSingle == "[download] 45.50% of 10.00MiB at 512.00KiB/s ETA 00:20"

LineDashEta == "[download]  45.50% of  10.00MiB at 512.00KiB/s ETA --:--"

UnitNames == {"GiB", "MiB", "KiB", "B"}

UnitLine(su, ru) ==
    "[download]  45.50% of  1.50" \o su \o " at 1.25" \o ru
    \o "/s ETA 00:20"

ShapeLines ==
    {LineSingle, LineDashEta}
    \cup {UnitLine(su, ru) : su \in UnitNames, ru \in UnitNames}

\* the exit statuses of a process that ends by itself
ExitCodes == {0, 1}

\* Popen.returncode of a process ended by SIGKILL
SIGKILLED == -9

\* YtDlpInfo.new(url)
YtDlpInfo_new(url) ==
    [url |-> url, progress |-> 0, rate_bytes_per_sec |-> 0, size_bytes |-> 0,
     eta_seconds |-> 0, completed |-> FALSE]

Range(f) == {f[i] : i \in DOMAIN f}

\* list.remove(x): without the first x
RECURSIVE ListRemove(_, _)
ListRemove(seq, x) ==
    IF seq = <<>> THEN <<>>
    ELSE IF Head(seq) = x THEN Tail(seq)
    ELSE <<Head(seq)>> \o ListRemove(Tail(seq), x)

\* Popen.poll(): the return code of an ended process, None of a running one
Poll(p) == IF proc[p].status = "exited" THEN proc[p].returncode ELSE None

\* Thread(...).start(): start() returns None
ThreadStart(t) == None

\* the objects after their constructors
InitObjects ==
    /\ process = None
    /\ proc_lock = FALSE
    /\ cancelled = FALSE
    /\ download_thread = None
    /\ data_lock = FALSE
    /\ rc = None
    /\ ytdlp_info = 1
    /\ heap = <<YtDlpInfo_new(URL)>>
    /\ listeners = <<>>
    /\ pc = [t \in Threads |-> "none"]
    /\ idx = [t \in Threads |-> 0]
    /\ ret = [t \in Threads |-> "loop"]
    /\ exc = [t \in Threads |-> "none"]
    /\ proc = [t \in Threads |->
                 [status |-> "none", signaled |-> FALSE, returncode |-> None]]
    /\ nlines = 0
    /\ kpc = "idle"
    /\ nkills = 0
    /\ started = 0
    /\ err = "none"
    /\ log = [l \in Listeners |-> <<>>]
    /\ regAtEnd = {}
    /\ last_progress = 0
    /\ seen = <<>>
    /\ removed = {}
    /\ q_info = None
    /\ q_rc = None
    /\ q_cancelled = FALSE
    /\ q_pc = "while"
    /\ q_emitted = <<>>
    /\ q_stored = 0
    /\ q_ppc = "running"

\* no static function called, a process that writes nothing to stderr
Init ==
    /\ InitObjects
    /\ f_call = <<>>
    /\ f_res = <<>>
    /\ stderr_pipe = 0
    /\ stderr_todo = 0

\* --------------------------------------------------- caller operations
\* download(): start a pump thread unless one is recorded as running
download ==
    /\ started < MaxDownloads
    /\ IF download_thread = None
       THEN /\ cancelled' = FALSE
            /\ rc' = None
            /\ download_thread' = ThreadStart(started + 1)
            /\ pc' = [pc EXCEPT ![started + 1] = "start"]
            /\ started' = started + 1
            /\ err' = "none"
       ELSE /\ err' = "Already downloading: " \o URL
            /\ UNCHANGED <<cancelled, rc, download_thread, pc, started>>
    /\ UNCHANGED <<process, proc_lock, data_lock, ytdlp_info, heap, listeners,
                   idx, ret, exc, proc, nlines, kpc, nkills, log, regAtEnd,
                   last_progress>>
    /\ UNCHANGED <<rvars, qvars, fvars, evars>>

\* add_listener(listener), the whole of it under data_lock
add_listener(l) ==
    /\ ~data_lock
    /\ listeners' = Append(listeners, l)
    /\ removed' = removed \ {l}
    /\ err' = "none"
    /\ UNCHANGED <<process, proc_lock, cancelled, download_thread, data_lock,
                   rc, ytdlp_info, heap, pc, idx, ret, exc, proc, nlines, kpc,
                   nkills, started, log, regAtEnd, last_progress>>
    /\ UNCHANGED <<seen, qvars, fvars, evars>>

\* remove_listener as it would be if it removed the listener from a copy
\* of the list
remove_listener_from_copy(l) ==
    /\ ~data_lock
    /\ IF l \in Range(listeners)
       THEN /\ removed' = removed \cup {l}
            /\ err' = "none"
       ELSE /\ err' = "ValueError"
            /\ UNCHANGED removed
    /\ UNCHANGED <<process, proc_lock, cancelled, download_thread, data_lock,
                   rc, ytdlp_info, heap, listeners, pc, idx, ret, exc, proc,
                   nlines, kpc, nkills, started, log, regAtEnd,
                   last_progress>>
    /\ UNCHANGED <<seen, qvars, fvars, evars>>

\* remove_listener(listener), the whole of it under data_lock; list.remove
\* raises ValueError for a listener that is not in the list
remove_listener(l) ==
    /\ ~data_lock
    /\ IF l \in Range(listeners)
       THEN /\ listeners' = ListRemove(listeners, l)
            /\ regAtEnd' = regAtEnd \cap Range(ListRemove(listeners, l))
            /\ removed' = removed \cup {l}
            /\ err' = "none"
       ELSE /\ err' = "ValueError"
            /\ UNCHANGED <<listeners, regAtEnd, removed>>
    /\ UNCHANGED <<process, proc_lock, cancelled, download_thread, data_lock,
                   rc, ytdlp_info, heap, pc, idx, ret, exc, proc, nlines, kpc,
                   nkills, started, log, last_progress>>
    /\ UNCHANGED <<seen, qvars, fvars, evars>>

\* get_info(): a copy of the record, taken under data_lock
get_info == heap[ytdlp_info]

is_complete == rc # None

get_rc == rc

\* kill() as it would be if it recorded a killed status itself
kill_begin_sets_rc ==
    /\ kpc = "idle"
    /\ cancelled' = TRUE
    /\ rc' = SIGKILLED
    /\ kpc' = "lock"
    /\ nkills' = nkills + 1
    /\ UNCHANGED <<process, proc_lock, download_thread, data_lock,
                   ytdlp_info, heap, listeners, pc, idx, ret, exc, proc,
                   nlines, started, err, log, regAtEnd, last_progress>>
    /\ UNCHANGED <<rvars, qvars, fvars, evars>>

\* kill(), first statement: self.cancelled = True
kill_begin ==
    /\ kpc = "idle"
    /\ cancelled' = TRUE
    /\ kpc' = "lock"
    /\ nkills' = nkills + 1
    /\ UNCHANGED <<process, proc_lock, download_thread, data_lock, rc,
                   ytdlp_info, heap, listeners, pc, idx, ret, exc, proc,
                   nlines, started, err, log, regAtEnd, last_progress>>
    /\ UNCHANGED <<rvars, qvars, fvars, evars>>

\* Popen.kill(): SIGKILL to a running process, nothing to an ended one
PopenKill(p) ==
    IF proc[p].status = "running"
    THEN [proc EXCEPT ![p].signaled = TRUE]
    ELSE proc

\* kill() as it would be if Popen.kill() were sent to a process that has
\* ended: os.kill on a reaped pid raises ProcessLookupError
kill_signal_always ==
    /\ kpc = "lock"
    /\ ~proc_lock
    /\ IF process # None /\ proc[process].status = "running"
       THEN /\ proc' = PopenKill(process)
            /\ err' = "none"
       ELSE /\ proc' = proc
            /\ err' = IF process = None THEN "none" ELSE "ProcessLookupError"
    /\ kpc' = "idle"
    /\ UNCHANGED <<process, proc_lock, cancelled, download_thread, data_lock,
                   rc, ytdlp_info, heap, listeners, pc, idx, ret, exc, nlines,
                   nkills, started, log, regAtEnd, last_progress>>
    /\ UNCHANGED <<rvars, qvars, fvars, evars>>

\* kill(), the with self.proc_lock block, entered when the lock is free:
\* if self.process is not None: self.process.kill()
kill_signal ==
    /\ kpc = "lock"
    /\ ~proc_lock
    /\ IF process # None
       THEN proc' = PopenKill(process)
       ELSE proc' = proc
    /\ err' = "none"
    /\ kpc' = "idle"
    /\ UNCHANGED <<process, proc_lock, cancelled, download_thread, data_lock,
                   rc, ytdlp_info, heap, listeners, pc, idx, ret, exc, nlines,
                   nkills, started, log, regAtEnd, last_progress>>
    /\ UNCHANGED <<rvars, qvars, fvars, evars>>

\* kill() statement by statement: with self.proc_lock, entered when the
\* lock is free
kill_acquire ==
    /\ kpc = "lock"
    /\ ~proc_lock
    /\ proc_lock' = TRUE
    /\ kpc' = "signal"
    /\ UNCHANGED <<process, cancelled, download_thread, data_lock, rc,
                   ytdlp_info, heap, listeners, pc, idx, ret, exc, proc,
                   nlines, nkills, started, err, log, regAtEnd,
                   last_progress>>
    /\ UNCHANGED <<rvars, qvars, fvars, evars>>

\* kill() statement by statement: if self.process is not None:
\* self.process.kill(), and the end of the with block
kill_send ==
    /\ kpc = "signal"
    /\ IF process # None
       THEN proc' = PopenKill(process)
       ELSE proc' = proc
    /\ proc_lock' = FALSE
    /\ err' = "none"
    /\ kpc' = "idle"
    /\ UNCHANGED <<process, cancelled, download_thread, data_lock, rc,
                   ytdlp_info, heap, listeners, pc, idx, ret, exc, nlines,
                   nkills, started, log, regAtEnd, last_progress>>
    /\ UNCHANGED <<rvars, qvars, fvars, evars>>

\* ------------------------------------------------------- the environment
\* a running process ends by itself
ProcessExits(p) ==
    /\ proc[p].status = "running"
    /\ ~proc[p].signaled
    /\ \E c \in ExitCodes :
          proc' = [proc EXCEPT ![p].status = "exited", ![p].returncode = c]
    /\ UNCHANGED <<process, proc_lock, cancelled, download_thread, data_lock,
                   rc, ytdlp_info, heap, listeners, pc, idx, ret, exc, nlines,
                   kpc, nkills, started, err, log, regAtEnd, last_progress>>
    /\ UNCHANGED <<rvars, qvars, fvars, evars>>

\* a process that was sent SIGKILL ends
ProcessDies(p) ==
    /\ proc[p].status = "running"
    /\ proc[p].signaled
    /\ proc' = [proc EXCEPT ![p].status = "exited",
                            ![p].returncode = SIGKILLED]
    /\ UNCHANGED <<process, proc_lock, cancelled, download_thread, data_lock,
                   rc, ytdlp_info, heap, listeners, pc, idx, ret, exc, nlines,
                   kpc, nkills, started, err, log, regAtEnd, last_progress>>
    /\ UNCHANGED <<rvars, qvars, fvars, evars>>

\* a running process writes a block to stderr: the pipe made by
\* stderr=PIPE takes it while it has room, and nothing reads the pipe
ProcessWritesStderr(p) ==
    /\ proc[p].status = "running"
    /\ stderr_todo > 0
    /\ stderr_pipe < PipeCapacity
    /\ stderr_pipe' = stderr_pipe + 1
    /\ stderr_todo' = stderr_todo - 1
    /\ UNCHANGED <<svars, rvars, qvars, fvars>>

\* a running process that has written all of its stderr ends by itself
ProcessExitsWritten(p) ==
    /\ proc[p].status = "running"
    /\ ~proc[p].signaled
    /\ stderr_todo = 0
    /\ \E c \in ExitCodes :
          proc' = [proc EXCEPT ![p].status = "exited", ![p].returncode = c]
    /\ UNCHANGED <<process, proc_lock, cancelled, download_thread, data_lock,
                   rc, ytdlp_info, heap, listeners, pc, idx, ret, exc, nlines,
                   kpc, nkills, started, err, log, regAtEnd, last_progress>>
    /\ UNCHANGED <<rvars, qvars, fvars, evars>>

\* ------------------------------------------- the pump, _download_func
\* parse_output(output): what it does to self.ytdlp_info.  "nomatch": the
\* pattern is not found; "raised": building the record raised (int() in
\* parse_seconds); "update": the new record
parse_output(out) ==
    LET m == re_search(out)
    IN  IF ~m.matched THEN [kind |-> "nomatch"]
        ELSE IF parse_seconds(m.g4).raised THEN [kind |-> "raised"]
        ELSE [kind |-> "update",
              info |-> [url |-> URL,
                        progress |-> Hundredths(PyFloat(m.g1)),
                        rate_bytes_per_sec |-> parse_byte_size(m.g3),
                        size_bytes |-> parse_byte_size(m.g2),
                        eta_seconds |-> parse_seconds(m.g4).val,
                        completed |-> FALSE]]

\* self.parse_output(output.strip()) of every line a process may write,
\* evaluated once per line
LineParse ==
    [line \in Lines \cup ShapeLines |-> parse_output(Strip(line \o "\n"))]

\* the with self.proc_lock block, entered when the lock is free:
\* self.process = Popen(...)
download_func_spawn(t) ==
    /\ pc[t] = "start"
    /\ ~proc_lock
    /\ process' = t
    /\ proc' = [proc EXCEPT ![t].status = "running"]
    /\ pc' = [pc EXCEPT ![t] = "loop"]
    /\ UNCHANGED <<proc_lock, cancelled, download_thread, data_lock, rc,
                   ytdlp_info, heap, listeners, idx, ret, exc, nlines, kpc,
                   nkills, started, err, log, regAtEnd, last_progress>>
    /\ UNCHANGED <<rvars, qvars, fvars, evars>>

\* the same block when ensure_directory or Popen raises (no yt-dlp on the
\* path, no permission): the exception ends the thread
download_func_spawn_raises(t) ==
    /\ pc[t] = "start"
    /\ ~proc_lock
    /\ pc' = [pc EXCEPT ![t] = "raised"]
    /\ exc' = [exc EXCEPT ![t] = "OSError"]
    /\ regAtEnd' = Range(listeners)
    /\ UNCHANGED <<process, proc_lock, cancelled, download_thread, data_lock,
                   rc, ytdlp_info, heap, listeners, idx, ret, proc, nlines,
                   kpc, nkills, started, err, log, last_progress>>
    /\ UNCHANGED <<rvars, qvars, fvars, evars>>

\* the loop as it would be if the line were read under data_lock
download_func_loop_locked(t) ==
    /\ pc[t] = "loop"
    /\ IF cancelled
       THEN /\ pc' = [pc EXCEPT ![t] = "poll"]
            /\ regAtEnd' = Range(listeners)
            /\ UNCHANGED data_lock
       ELSE /\ ~data_lock
            /\ data_lock' = TRUE
            /\ pc' = [pc EXCEPT ![t] = "read"]
            /\ UNCHANGED regAtEnd
    /\ UNCHANGED <<process, proc_lock, cancelled, download_thread, rc,
                   ytdlp_info, heap, listeners, idx, ret, exc, proc, nlines,
                   kpc, nkills, started, err, log, last_progress>>
    /\ UNCHANGED <<rvars, qvars, fvars, evars>>

\* while not self.cancelled
download_func_loop(t) ==
    /\ pc[t] = "loop"
    /\ IF cancelled
       THEN /\ pc' = [pc EXCEPT ![t] = "poll"]
            /\ regAtEnd' = Range(listeners)
       ELSE /\ pc' = [pc EXCEPT ![t] = "read"]
            /\ UNCHANGED regAtEnd
    /\ UNCHANGED <<process, proc_lock, cancelled, download_thread, data_lock,
                   rc, ytdlp_info, heap, listeners, idx, ret, exc, proc,
                   nlines, kpc, nkills, started, err, log, last_progress>>
    /\ UNCHANGED <<rvars, qvars, fvars, evars>>

\* output = self.process.stdout.readline() returns '' at the end of the
\* stream of an ended process (poll() is not None): break
download_func_eof(t) ==
    /\ pc[t] = "read"
    /\ proc[process].status = "exited"
    /\ Poll(process) # None
    /\ pc' = [pc EXCEPT ![t] = "poll"]
    /\ regAtEnd' = Range(listeners)
    /\ UNCHANGED <<process, proc_lock, cancelled, download_thread, data_lock,
                   rc, ytdlp_info, heap, listeners, idx, ret, exc, proc,
                   nlines, kpc, nkills, started, err, log, last_progress>>
    /\ UNCHANGED <<rvars, qvars, fvars, evars>>

\* the line step as it would be if a match set the fields of the held
\* record in place and only the percent were taken from the line
download_func_line_partial(t, line) ==
    /\ pc[t] = "read"
    /\ proc[process].status = "running"
    /\ nlines < MaxLines
    /\ nlines' = nlines + 1
    /\ LET r == LineParse[line]
       IN  CASE r.kind = "nomatch" ->
                  /\ pc' = [pc EXCEPT ![t] = "notify"]
                  /\ UNCHANGED <<ytdlp_info, heap, exc, regAtEnd,
                                 last_progress>>
             [] r.kind = "raised" ->
                  /\ ~data_lock
                  /\ pc' = [pc EXCEPT ![t] = "raised"]
                  /\ exc' = [exc EXCEPT ![t] = "ValueError"]
                  /\ regAtEnd' = Range(listeners)
                  /\ UNCHANGED <<ytdlp_info, heap, last_progress>>
             [] r.kind = "update" ->
                  /\ ~data_lock
                  /\ heap' = Append(heap,
                       [heap[ytdlp_info] EXCEPT
                           !.progress = r.info.progress,
                           !.completed = FALSE])
                  /\ ytdlp_info' = Len(heap) + 1
                  /\ last_progress' = r.info.progress
                  /\ pc' = [pc EXCEPT ![t] = "notify"]
                  /\ UNCHANGED <<exc, regAtEnd>>
    /\ ret' = [ret EXCEPT ![t] = "loop"]
    /\ UNCHANGED <<process, proc_lock, cancelled, download_thread, data_lock,
                   rc, listeners, idx, proc, kpc, nkills, started, err, log>>
    /\ UNCHANGED <<rvars, qvars, fvars, evars>>

\* output = self.process.stdout.readline() returns a line the process
\* wrote; self.parse_output(output.strip()); if self.ytdlp_info is not
\* None: on to notify_listeners().  A match takes data_lock for the
\* assignment; an exception raised while the record is built leaves the
\* record as it was and ends the thread
download_func_line(t, line) ==
    /\ pc[t] = "read"
    /\ proc[process].status = "running"
    /\ nlines < MaxLines
    /\ nlines' = nlines + 1
    /\ LET r == LineParse[line]
       IN  CASE r.kind = "nomatch" ->
                  /\ pc' = [pc EXCEPT ![t] =
                              IF ytdlp_info # None THEN "notify" ELSE "loop"]
                  /\ UNCHANGED <<ytdlp_info, heap, exc, regAtEnd,
                                 last_progress>>
             [] r.kind = "raised" ->
                  /\ ~data_lock
                  /\ pc' = [pc EXCEPT ![t] = "raised"]
                  /\ exc' = [exc EXCEPT ![t] = "ValueError"]
                  /\ regAtEnd' = Range(listeners)
                  /\ UNCHANGED <<ytdlp_info, heap, last_progress>>
             [] r.kind = "update" ->
                  /\ ~data_lock
                  /\ heap' = Append(heap, r.info)
                  /\ ytdlp_info' = Len(heap) + 1
                  /\ last_progress' = r.info.progress
                  /\ pc' = [pc EXCEPT ![t] = "notify"]
                  /\ UNCHANGED <<exc, regAtEnd>>
    /\ ret' = [ret EXCEPT ![t] = "loop"]
    /\ UNCHANGED <<process, proc_lock, cancelled, download_thread, data_lock,
                   rc, listeners, idx, proc, kpc, nkills, started, err, log>>
    /\ UNCHANGED <<rvars, qvars, fvars, evars>>

\* where a pump thread stands after notify_listeners() has returned: in the
\* loop again, or, after the last notification, at its end
\* (self.download_thread = None)
AfterNotify(t) == IF ret[t] = "exit" THEN "done" ELSE "loop"

\* notify_listeners(): with self.data_lock, entered when the lock is free;
\* with no listener the for loop has no turn and the call returns
notify_listeners_lock(t) ==
    /\ pc[t] = "notify"
    /\ ~data_lock
    /\ IF listeners = <<>>
       THEN /\ pc' = [pc EXCEPT ![t] = AfterNotify(t)]
            /\ download_thread' =
                 IF ret[t] = "exit" THEN None ELSE download_thread
            /\ UNCHANGED <<data_lock, idx>>
       ELSE /\ data_lock' = TRUE
            /\ idx' = [idx EXCEPT ![t] = 1]
            /\ pc' = [pc EXCEPT ![t] = "iter"]
            /\ UNCHANGED download_thread
    /\ UNCHANGED <<process, proc_lock, cancelled, rc, ytdlp_info, heap,
                   listeners, ret, exc, proc, nlines, kpc, nkills, started,
                   err, log, regAtEnd, last_progress>>
    /\ UNCHANGED <<rvars, qvars, fvars, evars>>

\* the callbacks one listener receives in one turn of the for loop:
\* status_update(self.ytdlp_info), handed the record itself (its reference),
\* and, when the record is completed, completed(self.rc)
Callbacks ==
    IF heap[ytdlp_info].completed
    THEN <<<<"status_update", ytdlp_info>>, <<"completed", rc>>>>
    ELSE <<<<"status_update", ytdlp_info>>>>

\* notify_listeners(): one turn of "for listener in self.listeners"; after
\* the last turn data_lock is released and the call returns
notify_listeners_iter(t) ==
    /\ pc[t] = "iter"
    /\ log' = [log EXCEPT ![listeners[idx[t]]] = @ \o Callbacks]
    /\ IF idx[t] < Len(listeners)
       THEN /\ idx' = [idx EXCEPT ![t] = @ + 1]
            /\ UNCHANGED <<data_lock, pc, download_thread>>
       ELSE /\ data_lock' = FALSE
            /\ idx' = [idx EXCEPT ![t] = 0]
            /\ pc' = [pc EXCEPT ![t] = AfterNotify(t)]
            /\ download_thread' =
                 IF ret[t] = "exit" THEN None ELSE download_thread
    /\ UNCHANGED <<process, proc_lock, cancelled, rc, ytdlp_info, heap,
                   listeners, ret, exc, proc, nlines, kpc, nkills, started,
                   err, regAtEnd, last_progress>>
    /\ UNCHANGED <<rvars, qvars, fvars, evars>>

\* self.rc = self.process.poll()
download_func_poll(t) ==
    /\ pc[t] = "poll"
    /\ rc' = Poll(process)
    /\ pc' = [pc EXCEPT ![t] = "finalize"]
    /\ UNCHANGED <<process, proc_lock, cancelled, download_thread, data_lock,
                   ytdlp_info, heap, listeners, idx, ret, exc, proc, nlines,
                   kpc, nkills, started, err, log, regAtEnd, last_progress>>
    /\ UNCHANGED <<rvars, qvars, fvars, evars>>

\* the record after "set some details that may not get parsed above"
Finalized(info) ==
    [info EXCEPT !.progress = IF rc = 0 THEN 10000 ELSE @,
                 !.completed = TRUE,
                 !.rate_bytes_per_sec = 0,
                 !.eta_seconds = 0]

\* with self.data_lock: the record self.ytdlp_info refers to is changed in
\* place; then on to the last notify_listeners()
download_func_finalize(t) ==
    /\ pc[t] = "finalize"
    /\ ~data_lock
    /\ heap' = [heap EXCEPT ![ytdlp_info] = Finalized(@)]
    /\ pc' = [pc EXCEPT ![t] = "notify"]
    /\ ret' = [ret EXCEPT ![t] = "exit"]
    /\ UNCHANGED <<process, proc_lock, cancelled, download_thread, data_lock,
                   rc, ytdlp_info, listeners, idx, exc, proc, nlines, kpc,
                   nkills, started, err, log, regAtEnd, last_progress>>
    /\ UNCHANGED <<rvars, qvars, fvars, evars>>

\* ------------------------- the finalization statement by statement
\* with self.data_lock, entered when the lock is free
finalize_lock(t) ==
    /\ pc[t] = "finalize"
    /\ ~data_lock
    /\ data_lock' = TRUE
    /\ pc' = [pc EXCEPT ![t] = "fin_progress"]
    /\ UNCHANGED <<process, proc_lock, cancelled, download_thread, rc,
                   ytdlp_info, heap, listeners, idx, ret, exc, proc, nlines,
                   kpc, nkills, started, err, log, regAtEnd, last_progress>>
    /\ UNCHANGED <<rvars, qvars, fvars, evars>>

\* the statement as it would be if a run that did not end with status 0
\* had its progress set back to 0
finalize_progress_resets(t) ==
    /\ pc[t] = "fin_progress"
    /\ heap' = [heap EXCEPT ![ytdlp_info].progress =
                  IF rc = 0 THEN 10000 ELSE 0]
    /\ pc' = [pc EXCEPT ![t] = "fin_completed"]
    /\ UNCHANGED <<process, proc_lock, cancelled, download_thread, data_lock,
                   rc, ytdlp_info, listeners, idx, ret, exc, proc, nlines,
                   kpc, nkills, started, err, log, regAtEnd, last_progress>>
    /\ UNCHANGED <<rvars, qvars, fvars, evars>>

\* if self.rc == 0: self.ytdlp_info.progress = 100.0
finalize_progress(t) ==
    /\ pc[t] = "fin_progress"
    /\ heap' = [heap EXCEPT ![ytdlp_info].progress =
                  IF rc = 0 THEN 10000 ELSE @]
    /\ pc' = [pc EXCEPT ![t] = "fin_completed"]
    /\ UNCHANGED <<process, proc_lock, cancelled, download_thread, data_lock,
                   rc, ytdlp_info, listeners, idx, ret, exc, proc, nlines,
                   kpc, nkills, started, err, log, regAtEnd, last_progress>>
    /\ UNCHANGED <<rvars, qvars, fvars, evars>>

\* self.ytdlp_info.completed = True
finalize_completed(t) ==
    /\ pc[t] = "fin_completed"
    /\ heap' = [heap EXCEPT ![ytdlp_info].completed = TRUE]
    /\ pc' = [pc EXCEPT ![t] = "fin_rate"]
    /\ UNCHANGED <<process, proc_lock, cancelled, download_thread, data_lock,
                   rc, ytdlp_info, listeners, idx, ret, exc, proc, nlines,
                   kpc, nkills, started, err, log, regAtEnd, last_progress>>
    /\ UNCHANGED <<rvars, qvars, fvars, evars>>

\* self.ytdlp_info.rate_bytes_per_sec = 0
finalize_rate(t) ==
    /\ pc[t] = "fin_rate"
    /\ heap' = [heap EXCEPT ![ytdlp_info].rate_bytes_per_sec = 0]
    /\ pc' = [pc EXCEPT ![t] = "fin_eta"]
    /\ UNCHANGED <<process, proc_lock, cancelled, download_thread, data_lock,
                   rc, ytdlp_info, listeners, idx, ret, exc, proc, nlines,
                   kpc, nkills, started, err, log, regAtEnd, last_progress>>
    /\ UNCHANGED <<rvars, qvars, fvars, evars>>

\* self.ytdlp_info.eta_seconds = 0, the end of the with block; then on to
\* the last notify_listeners()
finalize_eta(t) ==
    /\ pc[t] = "fin_eta"
    /\ heap' = [heap EXCEPT ![ytdlp_info].eta_seconds = 0]
    /\ data_lock' = FALSE
    /\ pc' = [pc EXCEPT ![t] = "notify"]
    /\ ret' = [ret EXCEPT ![t] = "exit"]
    /\ UNCHANGED <<process, proc_lock, cancelled, download_thread, rc,
                   ytdlp_info, listeners, idx, exc, proc, nlines, kpc,
                   nkills, started, err, log, regAtEnd, last_progress>>
    /\ UNCHANGED <<rvars, qvars, fvars, evars>>

\* ------------------------------------------------------------ a reader
\* get_info() called by a reader thread as it would be without the lock
reader_get_info_unlocked ==
    /\ seen' = <<get_info>>
    /\ UNCHANGED <<svars, removed, qvars, fvars, evars>>

\* get_info() called by a reader thread: with self.data_lock, entered when
\* the lock is free: return self.ytdlp_info.clone()
reader_get_info ==
    /\ ~data_lock
    /\ seen' = <<get_info>>
    /\ UNCHANGED <<svars, removed, qvars, fvars, evars>>

\* ------------------------------- a listener that calls the supervisor
\* notify_listeners(): a turn of the for loop whose listener calls
\* get_info() on the supervisor from inside status_update(); data_lock is
\* held by notify_listeners() all the while
notify_listeners_reenter(t) ==
    /\ pc[t] = "iter"
    /\ log' = [log EXCEPT ![listeners[idx[t]]] =
                  Append(@, <<"status_update", ytdlp_info>>)]
    /\ pc' = [pc EXCEPT ![t] = "callback"]
    /\ UNCHANGED <<process, proc_lock, cancelled, download_thread, data_lock,
                   rc, ytdlp_info, heap, listeners, idx, ret, exc, proc,
                   nlines, kpc, nkills, started, err, regAtEnd,
                   last_progress>>
    /\ UNCHANGED <<rvars, qvars, fvars, evars>>

\* get_info() called by thread c: with self.data_lock, entered when the
\* lock is free (threading.Lock has no owner: the thread that holds it
\* waits like any other).  c = 0 is a reader thread.  c = t is pump thread
\* t inside a listener's status_update(): when get_info() has returned the
\* callback returns and the turn of the for loop is finished, with
\* completed(self.rc) for a completed record
get_info_by(c) ==
    /\ ~data_lock
    /\ IF c = 0
       THEN /\ seen' = <<get_info>>
            /\ UNCHANGED <<svars, removed>>
       ELSE /\ pc[c] = "callback"
            /\ log' = [log EXCEPT ![listeners[idx[c]]] =
                          IF heap[ytdlp_info].completed
                          THEN Append(@, <<"completed", rc>>) ELSE @]
            /\ IF idx[c] < Len(listeners)
               THEN /\ idx' = [idx EXCEPT ![c] = @ + 1]
                    /\ pc' = [pc EXCEPT ![c] = "iter"]
                    /\ UNCHANGED <<data_lock, download_thread>>
               ELSE /\ data_lock' = FALSE
                    /\ idx' = [idx EXCEPT ![c] = 0]
                    /\ pc' = [pc EXCEPT ![c] = AfterNotify(c)]
                    /\ download_thread' =
                         IF ret[c] = "exit" THEN None ELSE download_thread
            /\ UNCHANGED <<process, proc_lock, cancelled, rc, ytdlp_info,
                           heap, listeners, ret, exc, proc, nlines, kpc,
                           nkills, started, err, regAtEnd, last_progress>>
            /\ UNCHANGED rvars
    /\ UNCHANGED <<qvars, fvars, evars>>

\* ------------------------------------------- the dispatcher, YtDlpQThread
\* Records handed to the dispatcher are numbered in the order they are
\* produced: q_stored is the number of the last one.  Every with
\* self.condition block is one step: the lock is free between steps, and
\* wait() gives it up.

\* self.condition.notify(): wakes the thread waiting in run(), if it waits
ConditionNotify == IF q_pc = "waiting" THEN "woken" ELSE q_pc

\* status_update(info): with self.condition: self.info = info.clone();
\* self.condition.notify()
q_status_update(info) ==
    /\ q_info' = info
    /\ q_pc' = ConditionNotify
    /\ UNCHANGED <<q_rc, q_cancelled, q_emitted>>

\* completed(rc): with self.condition: self.rc = rc; self.cancelled =
\* True; self.condition.notify()
q_completed(r) ==
    /\ q_rc' = r
    /\ q_cancelled' = TRUE
    /\ q_pc' = ConditionNotify
    /\ UNCHANGED <<q_info, q_emitted>>

\* the producer, the for loop of notify_listeners() on a record that is
\* not completed: listener.status_update(self.ytdlp_info)
producer_update ==
    /\ q_ppc = "running"
    /\ q_stored < MaxUpdates
    /\ q_status_update(q_stored + 1)
    /\ q_stored' = q_stored + 1
    /\ UNCHANGED <<q_ppc, svars, rvars, fvars,
                   evars>>

\* the producer on the completed record, first call:
\* listener.status_update(self.ytdlp_info)
producer_last_update ==
    /\ q_ppc = "running"
    /\ q_status_update(q_stored + 1)
    /\ q_stored' = q_stored + 1
    /\ q_ppc' = "final"
    /\ UNCHANGED <<svars, rvars, fvars,
                   evars>>

\* the producer on the completed record, second call:
\* listener.completed(self.rc), self.rc being None after a kill
producer_completed ==
    /\ q_ppc = "final"
    /\ \E r \in {None} \cup ExitCodes : q_completed(r)
    /\ q_ppc' = "done"
    /\ UNCHANGED <<q_stored, svars, rvars, fvars,
                   evars>>

\* run(): while not self.cancelled
run_while ==
    /\ q_pc = "while"
    /\ q_pc' = IF q_cancelled THEN "end" ELSE "enter"
    /\ UNCHANGED <<q_info, q_rc, q_cancelled, q_emitted, q_stored, q_ppc,
                   svars, rvars, fvars,
                   evars>>

\* run(): with self.condition: self.condition.wait()
run_wait ==
    /\ q_pc = "enter"
    /\ q_pc' = "waiting"
    /\ UNCHANGED <<q_info, q_rc, q_cancelled, q_emitted, q_stored, q_ppc,
                   svars, rvars, fvars,
                   evars>>

\* the signals run() emits after a wake-up, in its order
Emissions ==
    (IF q_rc # None THEN <<<<"completed_signal", q_rc>>>> ELSE <<>>)
    \o (IF q_info # None THEN <<<<"status_update_signal", q_info>>>>
        ELSE <<>>)

\* run() as it would be without self.info = None after the emission
run_woken_keeps_info ==
    /\ q_pc = "woken"
    /\ q_emitted' = q_emitted \o Emissions
    /\ q_rc' = None
    /\ q_pc' = "while"
    /\ UNCHANGED <<q_info, q_cancelled, q_stored, q_ppc, svars, rvars, fvars,
                   evars>>

\* run(), woken, the lock taken again: the rest of the with block
run_woken ==
    /\ q_pc = "woken"
    /\ q_emitted' = q_emitted \o Emissions
    /\ q_rc' = None
    /\ q_info' = None
    /\ q_pc' = "while"
    /\ UNCHANGED <<q_cancelled, q_stored, q_ppc, svars, rvars, fvars,
                   evars>>

\* ------------------------------------------- calls of static functions
\* the strings handed to parse_byte_size: \d+\.\d+ with two decimals and a
\* unit, as the pattern of parse_output captures them; a value of 2 GiB
\* or more is left out, its byte count has more than 31 bits
ByteWholes == {"0", "1", "10", "512"}

GiBWholes == {"0", "1"}

FracDigits == {"0", "2", "5", "9"}

ByteSizeInputs ==
    {w \o "." \o a \o b \o u :
        w \in ByteWholes, a \in FracDigits, b \in FracDigits,
        u \in {"MiB", "KiB", "B"}}
    \cup {w \o "." \o a \o b \o "GiB" :
             w \in GiBWholes, a \in FracDigits, b \in FracDigits}

\* the strings handed to parse_seconds: MM:SS and HH:MM:SS
TimeFields == {"00", "01", "02", "03", "30", "59"}

SecondsInputs ==
    {m \o ":" \o x : m \in TimeFields, x \in TimeFields}
    \cup {h \o ":" \o m \o ":" \o x :
             h \in TimeFields, m \in TimeFields, x \in TimeFields}

\* the numbers of seconds handed to seconds_human_readable, and None
DurationInputs ==
    {d * 86400 + h * 3600 + m * 60 + x :
        d \in {0, 1, 12}, h \in {0, 1, 23}, m \in {0, 1, 59},
        x \in {0, 9, 59}}
    \cup {None}

StaticCalls ==
    {<<"parse_byte_size", a>> : a \in ByteSizeInputs}
    \cup {<<"parse_seconds", a>> : a \in SecondsInputs}
    \cup {<<"seconds_human_readable", a>> : a \in DurationInputs}

\* one call of a static function is about to be made
InitStatics ==
    /\ InitObjects
    /\ f_call \in StaticCalls
    /\ f_res = <<>>
    /\ stderr_pipe = 0
    /\ stderr_todo = 0

\* YtDlpProcess.parse_byte_size(s)
call_parse_byte_size ==
    /\ f_call[1] = "parse_byte_size"
    /\ f_res = <<>>
    /\ f_res' = <<parse_byte_size(f_call[2])>>
    /\ UNCHANGED <<f_call, svars, rvars, qvars, evars>>

\* YtDlpProcess.parse_seconds(s)
call_parse_seconds ==
    /\ f_call[1] = "parse_seconds"
    /\ f_res = <<>>
    /\ f_res' = <<parse_seconds(f_call[2])>>
    /\ UNCHANGED <<f_call, svars, rvars, qvars, evars>>

\* seconds_human_readable(seconds)
call_seconds_human_readable ==
    /\ f_call[1] = "seconds_human_readable"
    /\ f_res = <<>>
    /\ f_res' = <<seconds_human_readable(f_call[2])>>
    /\ UNCHANGED <<f_call, svars, rvars, qvars, evars>>

\* --------------------------------------------------- the specifications
\* what the callers of kill() and of the listener operations do.  A listener
\* object registers itself once at a time (YtDlTableItem and YtDlpQThread
\* register in their constructors) and is removed only while registered.
\* kill() is called at most maxKills times.
CallerStep(maxKills) ==
    \/ \E l \in Listeners \ Range(listeners) : add_listener(l)
    \/ \E l \in Range(listeners) : remove_listener(l)
    \/ nkills < maxKills /\ kill_begin
    \/ kill_signal

\* what the pump threads and their processes do, the processes writing
\* lines of the set lines
PumpStep(lines) ==
    \E t \in Threads :
       \/ download_func_spawn(t)
       \/ download_func_spawn_raises(t)
       \/ download_func_loop(t)
       \/ download_func_eof(t)
       \/ \E line \in lines : download_func_line(t, line)
       \/ notify_listeners_lock(t)
       \/ notify_listeners_iter(t)
       \/ download_func_poll(t)
       \/ download_func_finalize(t)
       \/ ProcessExits(t)
       \/ ProcessDies(t)

\* the pump threads with the finalization taken statement by statement
PumpStepFine(lines) ==
    \E t \in Threads :
       \/ download_func_spawn(t)
       \/ download_func_spawn_raises(t)
       \/ download_func_loop(t)
       \/ download_func_eof(t)
       \/ \E line \in lines : download_func_line(t, line)
       \/ notify_listeners_lock(t)
       \/ notify_listeners_iter(t)
       \/ download_func_poll(t)
       \/ finalize_lock(t)
       \/ finalize_progress(t)
       \/ finalize_completed(t)
       \/ finalize_rate(t)
       \/ finalize_eta(t)
       \/ ProcessExits(t)
       \/ ProcessDies(t)

\* the pump thread of a supervisor that has no listener and is not killed
PumpStepAlone(lines) ==
    \E t \in Threads :
       \/ download_func_spawn(t)
       \/ download_func_spawn_raises(t)
       \/ download_func_loop(t)
       \/ download_func_eof(t)
       \/ \E line \in lines : download_func_line(t, line)
       \/ notify_listeners_lock(t)
       \/ download_func_poll(t)
       \/ download_func_finalize(t)
       \/ ProcessExits(t)

\* the supervisor with download() called at any moment, up to MaxDownloads
\* times
Next ==
    \/ download
    \/ CallerStep(MaxRestartKills)
    \/ PumpStep(RestartLines)

Spec == Init /\ [][Next]_vars

\* the supervisor of one job started once: download() is called once
NextOneRun ==
    \/ started = 0 /\ download
    \/ CallerStep(MaxKills)
    \/ PumpStep(Lines)

OneRun == Init /\ [][NextOneRun]_vars

\* the steps a started pump thread takes by itself: every statement of
\* _download_func but the readline() that waits for the process
PumpProgress(t) ==
    \/ download_func_spawn(t)
    \/ download_func_spawn_raises(t)
    \/ download_func_loop(t)
    \/ download_func_eof(t)
    \/ notify_listeners_lock(t)
    \/ notify_listeners_iter(t)
    \/ download_func_poll(t)
    \/ download_func_finalize(t)

\* threads that can run do run: a pump thread takes its next step, a
\* caller inside kill() gets proc_lock and signals, a process that was
\* sent SIGKILL ends (and with it its output stream)
Fairness ==
    /\ \A t \in Threads : WF_vars(PumpProgress(t))
    /\ \A t \in Threads : WF_vars(ProcessDies(t))
    /\ WF_vars(kill_signal)

\* one job started once, its threads scheduled fairly
OneRunFair == Init /\ [][NextOneRun]_vars /\ Fairness

\* the supervisor of one job started once, with a reader thread calling
\* get_info() at any moment
NextReaders ==
    \/ started = 0 /\ download
    \/ CallerStep(MaxKills)
    \/ PumpStepFine(Lines)
    \/ reader_get_info

Readers == Init /\ [][NextReaders]_vars

\* the dispatcher with its producer: one run of a supervisor that hands it
\* up to MaxUpdates records and then the completed one
NextDispatcher ==
    \/ producer_update
    \/ producer_last_update
    \/ producer_completed
    \/ run_while
    \/ run_wait
    \/ run_woken

Dispatcher == Init /\ [][NextDispatcher]_vars

\* the thread of run() takes its next step when it can: it tests the flag,
\* enters wait(), and goes on after a wake-up
DispatcherFairness ==
    /\ WF_vars(run_while)
    /\ WF_vars(run_wait)
    /\ WF_vars(run_woken)

DispatcherFair == Init /\ [][NextDispatcher]_vars /\ DispatcherFairness

\* the callers, kill() taken statement by statement
CallerStepFine(maxKills) ==
    \/ \E l \in Listeners \ Range(listeners) : add_listener(l)
    \/ \E l \in Range(listeners) : remove_listener(l)
    \/ nkills < maxKills /\ kill_begin
    \/ kill_acquire
    \/ kill_send

\* one job started once, kill() taken statement by statement
NextHandles ==
    \/ started = 0 /\ download
    \/ CallerStepFine(MaxKills)
    \/ PumpStep(Lines)

Handles == Init /\ [][NextHandles]_vars

\* the pump thread and its process, the job not being killed
PumpStepUnkilled(lines) ==
    \E t \in Threads :
       \/ download_func_spawn(t)
       \/ download_func_spawn_raises(t)
       \/ download_func_loop(t)
       \/ download_func_eof(t)
       \/ \E line \in lines : download_func_line(t, line)
       \/ notify_listeners_lock(t)
       \/ notify_listeners_iter(t)
       \/ download_func_poll(t)
       \/ download_func_finalize(t)
       \/ ProcessExits(t)

\* one job with listeners that call get_info() from status_update(), and
\* a reader thread
NextReentrant ==
    \/ started = 0 /\ download
    \/ \E l \in Listeners \ Range(listeners) : add_listener(l)
    \/ \E l \in Range(listeners) : remove_listener(l)
    \/ PumpStepUnkilled(Lines)
    \/ \E t \in Threads : notify_listeners_reenter(t)
    \/ \E c \in {0} \cup Threads : get_info_by(c)

\* the pump thread takes its next step, and a thread that waits for
\* data_lock in get_info() gets it when it is free
ReentrantFairness ==
    /\ \A t \in Threads : WF_vars(PumpProgress(t))
    /\ \A t \in Threads : WF_vars(get_info_by(t))

Reentrant == Init /\ [][NextReentrant]_vars /\ ReentrantFairness

\* a job that is started again after its run has ended: download() is
\* called a second time when the first pump thread has ended
NextRestart ==
    \/ /\ started = 0 \/ (started = 1 /\ pc[1] \in {"done", "raised"})
       /\ download
    \/ \E l \in Listeners \ Range(listeners) : add_listener(l)
    \/ \E l \in Range(listeners) : remove_listener(l)
    \/ PumpStepUnkilled({LineLog, LineA})

Restart == Init /\ [][NextRestart]_vars

\* a process with stderr output to write
InitStderr ==
    /\ InitObjects
    /\ f_call = <<>>
    /\ f_res = <<>>
    /\ stderr_pipe = 0
    /\ stderr_todo \in 0..MaxStderr

\* the pump thread and a process that writes lines of the set lines and
\* blocks to stderr, and ends when it has written them
PumpStepStderr(lines) ==
    \E t \in Threads :
       \/ download_func_spawn(t)
       \/ download_func_loop(t)
       \/ download_func_eof(t)
       \/ \E line \in lines : download_func_line(t, line)
       \/ notify_listeners_lock(t)
       \/ notify_listeners_iter(t)
       \/ download_func_poll(t)
       \/ download_func_finalize(t)
       \/ ProcessWritesStderr(t)
       \/ ProcessExitsWritten(t)

\* one job that is not killed, its process writing to stderr as well
NextStderr ==
    \/ started = 0 /\ download
    \/ \E l \in Listeners \ Range(listeners) : add_listener(l)
    \/ \E l \in Range(listeners) : remove_listener(l)
    \/ PumpStepStderr({LineLog, LineA})

\* the pump thread takes its next step; the process writes to stderr when
\* the pipe has room and ends when it has written everything
StderrFairness ==
    /\ \A t \in Threads : WF_vars(PumpProgress(t))
    /\ \A t \in Threads : WF_vars(ProcessWritesStderr(t))
    /\ \A t \in Threads : WF_vars(ProcessExitsWritten(t))

Stderr == InitStderr /\ [][NextStderr]_vars /\ StderrFairness

\* one call of a static function on one argument
NextStatics ==
    \/ call_parse_byte_size
    \/ call_parse_seconds
    \/ call_seconds_human_readable

\* one job whose process writes lines of the progress shape
NextShapes ==
    \/ started = 0 /\ download
    \/ PumpStepAlone(ShapeLines)

Shapes == Init /\ [][NextShapes]_vars

Statics == InitStatics /\ [][NextStatics]_vars

\* ------------------------------------------------------------ the claims
\* the pump threads that have started and have not ended
ActivePumps == {t \in Threads : pc[t] \notin {"none", "done", "raised"}}

\* the number of completed() calls a listener has received
CompletedCalls(l) ==
    Cardinality({i \in DOMAIN log[l] : log[l][i][1] = "completed"})

\* the positions of the status_update calls in a listener's log
StatusCalls(l) == {i \in DOMAIN log[l] : log[l][i][1] = "status_update"}

\* C1: download() on a supervisor whose pump loop is still running starts
\* no second pump loop: at most one pump loop is active in every reachable
\* state (and the call is answered with the Already downloading error).
C1_AtMostOnePump ==
    /\ Cardinality(ActivePumps) <= 1
    /\ Cardinality({t \in Threads : proc[t].status = "running"}) <= 1

\* C2: for one download() call, once the pump thread has ended, every
\* listener registered since before the pump loop ended has received
\* completed() exactly once, whatever lines came before and however the run
\* ended.
C2_CompletedExactlyOnce ==
    \A t \in Threads :
       pc[t] \in {"done", "raised"} =>
          \A l \in regAtEnd : CompletedCalls(l) = 1

\* C3: every listener receives its status_update calls in the order the
\* records were parsed (a later call never carries an older record) and
\* receives no status_update after its completed().
C3_CompletedIsLast ==
    \A l \in Listeners :
       \A i \in StatusCalls(l) :
          /\ \A j \in 1..(i - 1) : log[l][j][1] # "completed"
          /\ \A j \in StatusCalls(l) : j < i => log[l][j][2] <= log[l][i][2]

\* C4: whenever get_info().completed is true, the rate and the ETA are 0,
\* and progress is 100.0 when the captured exit status is 0 and the percent
\* of the last successfully parsed line (0.0 if none) otherwise.
C4_FinalRecord ==
    get_info.completed =>
       /\ get_info.rate_bytes_per_sec = 0
       /\ get_info.eta_seconds = 0
       /\ get_info.progress = IF get_rc = 0 THEN 10000 ELSE last_progress

\* C5: once the pump loop has ended and its thread has finished, for any
\* reason (end of stream, or the cancellation flag seen after kill()),
\* is_complete() is true.
C5_CompleteAfterLoop ==
    \A t \in Threads : (pc[t] = "done" /\ t = started) => is_complete

C7_KillIdempotent ==
    /\ err = "none"
    /\ \A l \in Listeners : CompletedCalls(l) <= 1

\* C7, its case: two kill() calls were made, both after the process had
\* exited by itself (lines were read before the first call, and the process
\* was never signalled), the pump thread has finished and a listener has its
\* one completed().
C7_Witness ==
    /\ nkills = 2 /\ kpc = "idle"
    /\ nlines >= 1
    /\ pc[1] = "done"
    /\ proc[1].status = "exited" /\ ~proc[1].signaled
    /\ \E l \in Listeners : CompletedCalls(l) = 1

\* C8: kill() signals the process in every interleaving with spawning: no
\* pump thread has finished while the process it spawned is still running
\* and was never signalled.
C8_KillReachesProcess ==
    \A t \in Threads :
       (pc[t] = "done" /\ proc[t].status = "running") => proc[t].signaled

\* C9: a pump thread that failed to spawn its process does not end on the
\* uncaught exception: when it has ended, the supervisor is complete with a
\* non-zero exit status and every listener registered then has received
\* completed().
C9_SpawnFailureCompletes ==
    \A t \in Threads :
       (pc[t] \in {"done", "raised"} /\ proc[t].status = "none") =>
          /\ exc[t] = "none"
          /\ is_complete /\ get_rc # 0
          /\ \A l \in regAtEnd : CompletedCalls(l) = 1

\* C10: no output line crashes the pump loop: no pump thread is ended by an
\* exception raised while a line was parsed.
C10_NoLineCrashesPump ==
    \A t \in Threads : ~(pc[t] = "raised" /\ exc[t] = "ValueError")

\* the record a line leaves behind: RecordA of LineA, RecordB of LineB (its
\* ETA 01:02:03 as parse_seconds converts it)
RecordA ==
    [url |-> URL, progress |-> 4550, rate_bytes_per_sec |-> 524288,
     size_bytes |-> 10485760, eta_seconds |-> 20, completed |-> FALSE]

RecordB ==
    [url |-> URL, progress |-> 2000, rate_bytes_per_sec |-> 1048576,
     size_bytes |-> 10485760, eta_seconds |-> 3721, completed |-> FALSE]

\* C11: an update is all-or-nothing per line: the record held after a line
\* was processed has percent, size, rate and ETA all of that line (LineA,
\* LineB), or is the record held before (a line that does not match, a line
\* whose conversion raised).
C11_AllOrNothing ==
    [][\A t \in Threads : \A line \in Lines :
          download_func_line(t, line) =>
             heap'[ytdlp_info'] =
                CASE line = LineA -> RecordA
                  [] line = LineB -> RecordB
                  [] OTHER -> heap[ytdlp_info]]_vars

\* C11, its case: two lines were processed, one that matched (LineA) and
\* one that did not, and the record held is the one of LineA.
C11_Witness ==
    /\ nlines = 2
    /\ Len(heap) = 2
    /\ get_info = RecordA

\* C12: a line that does not match causes no status_update: while no line
\* has been parsed successfully and the run is not finalized, no listener
\* has received a status_update.
C12_NoUpdateWithoutMatch ==
    (Len(heap) = 1 /\ ~heap[1].completed) =>
       \A l \in Listeners : StatusCalls(l) = {}

\* C14: a record handed to a listener's status_update keeps the field
\* values it had when handed out: a record handed out not completed (no
\* completed() followed in the same turn) is not completed later.
C14_HandedRecordsAreSnapshots ==
    \A l \in Listeners :
       \A i \in StatusCalls(l) :
          heap[log[l][i][2]].completed =>
             /\ i + 1 \in DOMAIN log[l]
             /\ log[l][i + 1][1] = "completed"

\* C15: the data lock is never held by a pump thread that is spawning the
\* process, blocked reading a line or polling: whenever it is held, its
\* holder is one pump thread inside the for loop of notify_listeners().
C15_DataLockNotHeldOnProcess ==
    data_lock =>
       /\ Cardinality({t \in Threads : pc[t] = "iter"}) = 1
       /\ \A t \in Threads :
             pc[t] \in {"start", "read", "poll"} =>
                \E u \in Threads \ {t} : pc[u] = "iter"

\* C15, its case: after a notification, the pump thread is blocked reading
\* the next line of a running, silent process and the data lock is free
\* for get_info().
C15_Witness ==
    /\ ~data_lock
    /\ \E t \in Threads :
          /\ pc[t] = "read"
          /\ proc[process].status = "running"
    /\ \E l \in Listeners : StatusCalls(l) # {}

\* C17: get_info().completed implies that the spawned process has ended,
\* also when the run was ended by kill().
C17_CompletedImpliesExited ==
    get_info.completed =>
       /\ process # None
       /\ proc[process].status = "exited"

\* C16: a listener is never invoked after it has been removed: no step
\* adds a status_update or a completed call to the log of a listener for
\* which remove_listener() has returned (and that was not added again).
C16_NoCallAfterRemove ==
    [][\A l \in removed : log'[l] = log[l]]_vars

\* C16, its case: a listener that had received status updates was removed
\* during the run; the run has ended with its last notification made, and
\* the listener received no completed().
C16_Witness ==
    \E l \in removed :
       /\ started = 1 /\ pc[1] = "done"
       /\ StatusCalls(l) # {}
       /\ CompletedCalls(l) = 0

\* the records a reader may see: the initial record, the record of one
\* line, and such a record with the whole finalization applied (progress
\* 100.0 after exit status 0, its own progress otherwise)
WholeRecords ==
    LET base == {YtDlpInfo_new(URL), RecordA, RecordB}
    IN  base \cup
        UNION {{[b EXCEPT !.completed = TRUE, !.rate_bytes_per_sec = 0,
                          !.eta_seconds = 0, !.progress = p] :
                   p \in {b.progress, 10000}} : b \in base}

\* C13: get_info() is indivisible with respect to the writes of the pump
\* thread: every record a reader was returned is the initial record, a
\* record built wholly from one line, or a finalized record with all of
\* completed, rate 0 and ETA 0; never one with part of the finalization.
C13_GetInfoIndivisible ==
    \A i \in DOMAIN seen : seen[i] \in WholeRecords

\* C13, its case: a reader holds the record of LineA that get_info()
\* returned, and the pump thread is part-way through the finalization of
\* that record, under the data lock.
C13_Witness ==
    /\ seen = <<RecordA>>
    /\ ytdlp_info = 2 /\ heap[2].progress = 4550
    /\ \E t \in Threads : pc[t] \in {"fin_completed", "fin_rate", "fin_eta"}

\* the positions in q_emitted of the signals of one kind
EmittedAt(kind) == {i \in DOMAIN q_emitted : q_emitted[i][1] = kind}

\* C18: the dispatcher never drops the completion event: when the consumer
\* loop has stopped, it has emitted completed_signal, whatever the status
\* given to completed() and wherever the loop stood at that call.
C18_CompletionNotDropped ==
    q_pc = "end" => EmittedAt("completed_signal") # {}

\* C19: through the dispatcher the completion is the last notification: no
\* status_update_signal is emitted after completed_signal.
C19_NoStatusAfterCompleted ==
    \A i \in EmittedAt("status_update_signal") :
       \A j \in EmittedAt("completed_signal") : i < j

\* C20: at most one pending status update, the last written wins: every
\* status_update_signal carries the record stored last at the moment of its
\* emission, and a record newer than every record emitted before (so no
\* record is emitted twice and none after a newer one).
C20_LastWriteWins ==
    [][\A i \in DOMAIN q_emitted' \ DOMAIN q_emitted :
          q_emitted'[i][1] = "status_update_signal" =>
             /\ q_emitted'[i][2] = q_stored
             /\ \A j \in EmittedAt("status_update_signal") :
                   q_emitted[j][2] < q_emitted'[i][2]]_vars

\* C20, its case: records 2 and 3 were stored in a burst between two
\* wake-ups: record 1 and record 3 were emitted, record 2 never.
C20_Witness ==
    /\ \E i \in DOMAIN q_emitted : q_emitted[i] = <<"status_update_signal", 1>>
    /\ \E i \in DOMAIN q_emitted : q_emitted[i] = <<"status_update_signal", 3>>
    /\ \A i \in DOMAIN q_emitted : q_emitted[i] # <<"status_update_signal", 2>>
    /\ q_pc = "waiting" /\ q_info = None

\* C21: a supervisor fed the line '[download] 45.50% of 10.00MiB at
\* 512.00KiB/s ETA 00:20', with single spaces between the fields, then
\* returns from get_info() progress 45.50, size 10485760, rate 524288, eta
\* 20 and completed false: every step in which the pump reads that line
\* leaves this record as the one get_info() returns.
C21_SingleSpaceLine ==
    [][\A t \in Threads :
          download_func_line(t, LineSingle) =>
             heap'[ytdlp_info'] = RecordA]_vars

\* C22: a line of the progress shape is recognized for each of the units
\* GiB, MiB, KiB and B in the size position and in the rate position: every
\* step in which the pump reads such a line assigns a new record that has
\* the percent, a size and a rate of the line.
C22_EveryUnitRecognized ==
    [][\A t \in Threads : \A su \in UnitNames : \A ru \in UnitNames :
          download_func_line(t, UnitLine(su, ru)) =>
             /\ ytdlp_info' # ytdlp_info
             /\ heap'[ytdlp_info'].progress = 4550
             /\ heap'[ytdlp_info'].size_bytes > 0
             /\ heap'[ytdlp_info'].rate_bytes_per_sec > 0]_vars

\* C23: parse_seconds gives 60*MM + SS for 'MM:SS' and 3600*HH + 60*MM + SS
\* for 'HH:MM:SS', whatever the fields.
C23_ParseSeconds ==
    (f_call # <<>> /\ f_call[1] = "parse_seconds" /\ f_res # <<>>) =>
       \A h \in TimeFields : \A m \in TimeFields : \A x \in TimeFields :
          /\ f_call[2] = m \o ":" \o x =>
                f_res[1] = [raised |-> FALSE,
                            val |-> 60 * DigitsValue(m) + DigitsValue(x)]
          /\ f_call[2] = h \o ":" \o m \o ":" \o x =>
                f_res[1] = [raised |-> FALSE,
                            val |-> 3600 * DigitsValue(h) + 60 * DigitsValue(m)
                                    + DigitsValue(x)]

\* C24: a line of the progress shape whose ETA is '--:--' is a recognized
\* progress line: every step in which the pump reads it leaves a record
\* with the percent, the size and the rate of the line and with the unknown
\* sentinel (None) as eta_seconds.
C24_UnknownEta ==
    [][\A t \in Threads :
          download_func_line(t, LineDashEta) =>
             /\ heap'[ytdlp_info'].progress = 4550
             /\ heap'[ytdlp_info'].size_bytes = 10485760
             /\ heap'[ytdlp_info'].rate_bytes_per_sec = 524288
             /\ heap'[ytdlp_info'].eta_seconds = None]_vars

\* f * 1024^k / 100 truncated, f below 100; for k = 3 the product is formed
\* in two steps so that no intermediate exceeds 32 bits
FracBytes(f, k) ==
    IF k <= 2 THEN (f * Pow(1024, k)) \div 100
    ELSE LET m == f * Pow(1024, k - 1)
         IN  (m \div 100) * 1024 + ((m % 100) * 1024) \div 100

\* the power of 1024 a unit stands for
UnitPower(u) ==
    CASE u = "GiB" -> 3 [] u = "MiB" -> 2 [] u = "KiB" -> 1 [] u = "B" -> 0

\* C25: parse_byte_size('<value><unit>') is value * 1024^k truncated toward
\* zero, k = 3, 2, 1, 0 for GiB, MiB, KiB, B, for every value with two
\* decimals; '1.00GiB' gives 1073741824, '512.00KiB' gives 524288 and
\* '1.00B' gives 1.
C25_ByteSize ==
    (f_call # <<>> /\ f_call[1] = "parse_byte_size" /\ f_res # <<>>) =>
       /\ \A w \in ByteWholes : \A a \in FracDigits : \A b \in FracDigits :
          \A u \in UnitNames :
             f_call[2] = w \o "." \o a \o b \o u =>
                f_res[1] = DigitsValue(w) * Pow(1024, UnitPower(u))
                           + FracBytes(DigitsValue(a \o b), UnitPower(u))
       /\ f_call[2] = "1.00GiB" => f_res[1] = 1073741824
       /\ f_call[2] = "512.00KiB" => f_res[1] = 524288
       /\ f_call[2] = "1.00B" => f_res[1] = 1

\* parse_byte_size has returned for a value with a fraction and for the
\* largest unit
C25_Witness ==
    /\ f_call = <<"parse_byte_size", "1.59GiB">>
    /\ f_res = <<1707249500>>

\* C27: seconds_human_readable renders a number of seconds s from its
\* days, hours, minutes and seconds: two fields MM:SS when s is below one
\* hour (0 gives '00:00'), three fields HH:MM:SS when s is below one day,
\* four fields DD:HH:MM:SS otherwise; every field has at least two digits,
\* minutes and seconds are below 60, hours below 24, and the fields add up
\* to s; None gives the empty string.
C27_HumanReadable ==
    (f_call # <<>> /\ f_call[1] = "seconds_human_readable" /\ f_res # <<>>)
    =>
       IF f_call[2] = None THEN f_res[1] = ""
       ELSE
         LET parts == SplitColon(f_res[1], 1, "")
             n == Len(parts)
             v(i) == DigitsValue(parts[i])
         IN  /\ n = (IF f_call[2] < 3600 THEN 2
                     ELSE IF f_call[2] < 86400 THEN 3 ELSE 4)
             /\ \A i \in 1..n : AllDigits(parts[i]) /\ Len(parts[i]) >= 2
             /\ v(n) < 60
             /\ v(n - 1) < 60
             /\ n >= 3 => v(n - 2) < 24
             /\ f_call[2] = v(n) + 60 * v(n - 1)
                            + (IF n >= 3 THEN 3600 * v(n - 2) ELSE 0)
                            + (IF n = 4 THEN 86400 * v(1) ELSE 0)
             /\ f_call[2] = 0 => f_res[1] = "00:00"

\* seconds_human_readable has returned for a duration of more than a day
C27_Witness ==
    /\ f_call = <<"seconds_human_readable", 90069>>
    /\ f_res = <<"01:01:01:09">>

\* C26 as stated: the progress seen through get_info() is non-decreasing
\* across a job: no get_info() returns a lower progress than the
\* get_info() before it.
C26_SeenNonDecreasing ==
    [][(seen # <<>> /\ seen' # <<>>) =>
          seen'[1].progress >= seen[1].progress]_vars

\* C26, amended: every get_info() returns a record whose progress is at
\* least the percent of the last line that parsed, and a get_info() that
\* returns a lower progress than the one before it returns exactly that
\* percent: the progress seen goes down only when the process writes a
\* lower percent.
C26_AtLeastLastUpdate ==
    [][reader_get_info =>
          /\ seen'[1].progress >= last_progress
          /\ (seen # <<>> /\ seen'[1].progress < seen[1].progress) =>
                seen'[1].progress = last_progress]_vars

\* a reader has seen 45.50 % and then, after the process wrote a line with
\* 20.00 %, the record of that line
C26_Witness ==
    /\ nlines = 2
    /\ last_progress = 2000
    /\ seen = <<RecordB>>

\* C28: after kill() is called on a running supervisor, the pump loop
\* eventually ends and every listener registered then eventually receives
\* its completion callback: from every state in which the job has been
\* started and kill() has set the flag, a state is reached in which the
\* pump thread has ended and every listener registered since the end of
\* the loop has received completed().
C28_KillLeadsToCompletion ==
    (started = 1 /\ cancelled)
    ~> (/\ pc[1] \in {"done", "raised"}
        /\ \A l \in regAtEnd : CompletedCalls(l) >= 1)

\* C29: the supervisor drains the stderr of the process, so a process that
\* would end by itself after writing its stderr output does end, whatever
\* the amount, and the pump loop then reaches its end and delivers the
\* completion: from every state with a running process a state is reached
\* in which the process has ended, the pump thread is done and the
\* listeners registered since the end of the loop have received
\* completed().
C29_StderrNeverBlocks ==
    (proc[1].status = "running")
    ~> (/\ proc[1].status = "exited"
        /\ pc[1] = "done"
        /\ \A l \in regAtEnd : CompletedCalls(l) >= 1)

\* C30: every access to the process handle is made under the process lock:
\* in no reachable state is a pump thread reading from the process
\* (readline) or about to poll it while another thread is inside the with
\* self.proc_lock block of kill(), signalling the process.
C30_HandleUnderLock ==
    \A t \in Threads :
       pc[t] \in {"read", "poll"} => ~(kpc = "signal" /\ process # None)

\* C31: the completion flags agree with the snapshot at every moment: in a
\* state in which is_complete() returns true, a get_info() made next by a
\* reader returns a record with completed true.
C31_CompleteAgreesWithSnapshot ==
    [][(is_complete /\ reader_get_info) => seen'[1].completed]_vars

\* C32: notification delivery cannot deadlock the supervisor: a listener
\* whose callback calls get_info() (or another operation that takes
\* data_lock) on the supervisor that is notifying it returns from that
\* call: a pump thread that is inside such a callback eventually is not.
C32_CallbackReturns ==
    \A t \in Threads : (pc[t] = "callback") ~> (pc[t] # "callback")

\* C33: run() terminates after completion: once the producer has called
\* completed() on the dispatcher, the loop of run() eventually ends,
\* whatever the interleaving of the producer's calls with run(); it is not
\* left in wait() with no notify to come.
C33_RunTerminates ==
    (q_ppc = "done") ~> (q_pc = "end")

\* C34: a second download() on a supervisor whose first run has ended
\* starts from a clean state: as long as the second process has not ended,
\* get_info() returns a record that is not completed and no listener has
\* received a completed() of the second run (a first run delivers at most
\* one to a listener).
C34_SecondRunClean ==
    (started = 2 /\ pc[1] \in {"done", "raised"}
     /\ proc[2].status # "exited")
    => /\ ~get_info.completed
       /\ \A l \in Listeners : CompletedCalls(l) <= 1

====
